---- MODULE Spec2Model ----
(***************************************************************************)
(* tasklog (src/tasklog.py): a command-line task logger.  One behaviour    *)
(* of the model is a sequence of complete CLI invocations (`add`, `query`, *)
(* no command) against the store file tasklog.csv and the Ollama endpoint. *)
(*                                                                         *)
(* Text is modelled as a sequence of chunks (strings); the text denoted is *)
(* the concatenation of the chunks.  The characters that matter to the CSV *)
(* dialect, to float() and to date.fromisoformat() are always chunks of    *)
(* their own; fixed literals of the program are single chunks.             *)
(***************************************************************************)
EXTENDS Integers, Sequences, FiniteSets, TLC

(* ---------------------------- bounds ----------------------------------- *)

\* the add action is enabled while the store holds fewer data rows than this
MaxRecords == 2

(* ---------------------------- constants -------------------------------- *)

CSV_HEADERS == << <<"timestamp">>, <<"date">>, <<"task">>, <<"hours">> >>
DEFAULT_MODEL == <<"llama3">>

COMMA == ","
QUOTE == "\""
CR == "\r"
LF == "\n"

(* ---------------------------- text helpers ----------------------------- *)

Digits == <<"0", "1", "2", "3", "4", "5", "6", "7", "8", "9">>

IsDigit(c) == \E d \in 1..10 : Digits[d] = c

DigitVal(c) == (CHOOSE d \in 1..10 : Digits[d] = c) - 1

RECURSIVE Pow10(_)
Pow10(n) == IF n = 0 THEN 1 ELSE 10 * Pow10(n - 1)

\* decimal value of a sequence of digit characters
RECURSIVE DigitsVal(_)
DigitsVal(s) ==
  IF s = <<>> THEN 0
  ELSE 10 * DigitsVal(SubSeq(s, 1, Len(s) - 1)) + DigitVal(s[Len(s)])

\* str(n) for a natural number n
RECURSIVE IntStr(_)
IntStr(n) ==
  IF n < 10 THEN <<Digits[n + 1]>>
  ELSE IntStr(n \div 10) \o <<Digits[(n % 10) + 1]>>

\* n written with exactly w digits (zero padded)
RECURSIVE PadStr(_, _)
PadStr(n, w) ==
  IF w = 0 THEN <<>> ELSE PadStr(n \div 10, w - 1) \o <<Digits[(n % 10) + 1]>>

(* ---------------------------- float ------------------------------------ *)

\* A float is nan, +-inf, or a finite decimal (-1)^neg * mant / 10^exp kept
\* normalised (no trailing fractional zero).  The hours values of the model
\* have few digits, where Python's binary floats and shortest repr agree
\* with exact decimals.
FloatError == [k |-> "ValueError", neg |-> FALSE, mant |-> 0, exp |-> 0]
NaN == [k |-> "nan", neg |-> FALSE, mant |-> 0, exp |-> 0]
Inf(neg) == [k |-> "inf", neg |-> neg, mant |-> 0, exp |-> 0]

RECURSIVE Normalise(_, _, _)
Normalise(neg, mant, exp) ==
  IF exp > 0 /\ mant % 10 = 0 THEN Normalise(neg, mant \div 10, exp - 1)
  ELSE [k |-> "fin", neg |-> neg, mant |-> mant, exp |-> exp]

Fin(neg, mant, exp) == Normalise(neg, mant, exp)

\* float(s) for: [sign] digits [. digits] | [sign] nan | [sign] inf
ParseFloat(s) ==
  LET signed == s # <<>> /\ s[1] \in {"-", "+"}
      neg == s # <<>> /\ s[1] = "-"
      body == IF signed THEN SubSeq(s, 2, Len(s)) ELSE s
      dots == {i \in 1..Len(body) : body[i] = "."}
      dot == IF dots = {} THEN Len(body) + 1 ELSE CHOOSE i \in dots : TRUE
      ip == SubSeq(body, 1, dot - 1)
      fp == SubSeq(body, dot + 1, Len(body))
  IN  IF body = <<"n", "a", "n">> THEN NaN
      ELSE IF body = <<"i", "n", "f">> THEN Inf(neg)
      ELSE IF /\ Cardinality(dots) <= 1
              /\ \A i \in 1..Len(body) : i \in dots \/ IsDigit(body[i])
              /\ Len(ip) + Len(fp) >= 1
           THEN Fin(neg, DigitsVal(ip \o fp), Len(fp))
           ELSE FloatError

\* repr(x) == str(x) of a float
FloatRepr(x) ==
  IF x.k = "nan" THEN <<"n", "a", "n">>
  ELSE IF x.k = "inf" THEN (IF x.neg THEN <<"-">> ELSE <<>>) \o <<"i", "n", "f">>
  ELSE (IF x.neg THEN <<"-">> ELSE <<>>)
       \o IntStr(x.mant \div Pow10(x.exp))
       \o <<".">>
       \o (IF x.exp = 0 THEN <<"0">> ELSE PadStr(x.mant % Pow10(x.exp), x.exp))

\* x < 0 on floats: every comparison with nan is false, -0.0 is not < 0
FloatLtZero(x) ==
  \/ x.k = "inf" /\ x.neg
  \/ x.k = "fin" /\ x.neg /\ x.mant > 0

\* x >= 0 on floats
FloatGeZero(x) ==
  \/ x.k = "inf" /\ ~x.neg
  \/ x.k = "fin" /\ (~x.neg \/ x.mant = 0)

\* x == y on floats: nan is unequal to everything, -0.0 == 0.0
FloatEq(x, y) ==
  /\ x.k \in {"inf", "fin"}
  /\ y.k = x.k
  /\ x.mant = y.mant
  /\ x.exp = y.exp
  /\ (x.neg = y.neg \/ (x.k = "fin" /\ x.mant = 0))

(* ---------------------------- dates ------------------------------------ *)

IsLeap(y) == y % 4 = 0 /\ (y % 100 # 0 \/ y % 400 = 0)

DaysInMonth(y, m) ==
  IF m = 2 THEN (IF IsLeap(y) THEN 29 ELSE 28)
  ELSE IF m \in {4, 6, 9, 11} THEN 30 ELSE 31

\* datetime.date.fromisoformat(s) succeeds, for the YYYY-MM-DD form (the
\* only form every Python 3 version accepts)
IsIsoDate(s) ==
  /\ Len(s) = 10
  /\ s[5] = "-" /\ s[8] = "-"
  /\ \A i \in {1, 2, 3, 4, 6, 7, 9, 10} : IsDigit(s[i])
  /\ LET y == DigitsVal(SubSeq(s, 1, 4))
         m == DigitsVal(SubSeq(s, 6, 7))
         d == DigitsVal(SubSeq(s, 9, 10))
     IN  /\ y >= 1
         /\ m \in 1..12
         /\ d >= 1 /\ d <= DaysInMonth(y, m)

(* ---------------------------- csv -------------------------------------- *)

RECURSIVE Join(_, _)
Join(parts, sep) ==
  IF parts = <<>> THEN <<>>
  ELSE IF Len(parts) = 1 THEN parts[1]
  ELSE parts[1] \o sep \o Join(Tail(parts), sep)

RECURSIVE DoubleQuotes(_)
DoubleQuotes(f) ==
  IF f = <<>> THEN <<>>
  ELSE (IF f[1] = QUOTE THEN <<QUOTE, QUOTE>> ELSE <<f[1]>>) \o DoubleQuotes(Tail(f))

\* a writer that quotes a field without doubling the quotes inside it
CsvQuoteFieldNoDoubling(f) ==
  IF \E i \in 1..Len(f) : f[i] \in {COMMA, QUOTE, CR, LF}
  THEN <<QUOTE>> \o f \o <<QUOTE>>
  ELSE f

\* csv.writer, excel dialect, QUOTE_MINIMAL: one field
CsvQuoteField(f) ==
  IF \E i \in 1..Len(f) : f[i] \in {COMMA, QUOTE, CR, LF}
  THEN <<QUOTE>> \o DoubleQuotes(f) \o <<QUOTE>>
  ELSE f

\* csv.writer(...).writerow(fields): the text appended to the file
CsvWriteRow(fields) ==
  Join([i \in 1..Len(fields) |-> CsvQuoteField(fields[i])], <<COMMA>>) \o <<CR, LF>>

\* csv.reader over a file opened with newline='': the rows of the text s
\* (empty lines give empty rows).  st is the parser state of _csv.c.
RECURSIVE CsvParse(_, _, _, _, _, _)
CsvParse(s, i, st, field, row, rows) ==
  IF i > Len(s) THEN
    IF st = "START_RECORD" THEN rows ELSE Append(rows, Append(row, field))
  ELSE
    LET c == s[i]
        eol == c \in {CR, LF}
        nxt == IF c = CR /\ i < Len(s) /\ s[i + 1] = LF THEN i + 2 ELSE i + 1
    IN  CASE st = "START_RECORD" /\ eol ->
               CsvParse(s, nxt, "START_RECORD", <<>>, <<>>, Append(rows, <<>>))
          [] st \in {"START_RECORD", "START_FIELD"} /\ ~eol /\ c = QUOTE ->
               CsvParse(s, i + 1, "IN_QUOTED_FIELD", <<>>, row, rows)
          [] st \in {"START_RECORD", "START_FIELD"} /\ ~eol /\ c = COMMA ->
               CsvParse(s, i + 1, "START_FIELD", <<>>, Append(row, <<>>), rows)
          [] st \in {"START_RECORD", "START_FIELD"} /\ ~eol /\ c \notin {QUOTE, COMMA} ->
               CsvParse(s, i + 1, "IN_FIELD", <<c>>, row, rows)
          [] st \in {"START_FIELD", "IN_FIELD", "QUOTE_IN_QUOTED_FIELD"} /\ eol ->
               CsvParse(s, nxt, "START_RECORD", <<>>, <<>>, Append(rows, Append(row, field)))
          [] st \in {"IN_FIELD", "QUOTE_IN_QUOTED_FIELD"} /\ c = COMMA ->
               CsvParse(s, i + 1, "START_FIELD", <<>>, Append(row, field), rows)
          [] st = "IN_FIELD" /\ ~eol /\ c # COMMA ->
               CsvParse(s, i + 1, "IN_FIELD", Append(field, c), row, rows)
          [] st = "IN_QUOTED_FIELD" /\ c = QUOTE ->
               CsvParse(s, i + 1, "QUOTE_IN_QUOTED_FIELD", field, row, rows)
          [] st = "IN_QUOTED_FIELD" /\ c # QUOTE ->
               CsvParse(s, i + 1, "IN_QUOTED_FIELD", Append(field, c), row, rows)
          [] st = "QUOTE_IN_QUOTED_FIELD" /\ c = QUOTE ->
               CsvParse(s, i + 1, "IN_QUOTED_FIELD", Append(field, c), row, rows)
          [] st = "QUOTE_IN_QUOTED_FIELD" /\ ~eol /\ c \notin {QUOTE, COMMA} ->
               CsvParse(s, i + 1, "IN_FIELD", Append(field, c), row, rows)

CsvRows(s) == CsvParse(s, 1, "START_RECORD", <<>>, <<>>, <<>>)

\* the rows a csv.DictReader looks at: it skips the empty ones
NonEmptyRows(rows) == SelectSeq(rows, LAMBDA r : r # <<>>)

(* ---------------------------- inputs ----------------------------------- *)

\* task descriptions given on the command line: plain, with the csv
\* delimiter and quote character, with an embedded newline
Tasks ==
  { <<"a">>,
    <<"b", ",", "\"", "c">>,
    <<"x", "\n", "y">> }

\* --date values: a leap day, a day that does not exist, another format
Dates ==
  { <<"2", "0", "2", "4", "-", "0", "2", "-", "2", "9">>,
    <<"2", "0", "2", "3", "-", "0", "2", "-", "2", "9">>,
    <<"2", "9", "/", "0", "2", "/", "2", "0", "2", "4">> }

\* --hours values; given = FALSE is the option left out
HoursOpts ==
  { [given |-> FALSE, text |-> <<>>],
    [given |-> TRUE, text |-> <<"3", ".", "5", "0">>],
    [given |-> TRUE, text |-> <<"n", "a", "n">>],
    [given |-> TRUE, text |-> <<"i", "n", "f">>],
    [given |-> TRUE, text |-> <<"-", "1">>],
    [given |-> TRUE, text |-> <<"-", "i", "n", "f">>],
    [given |-> TRUE, text |-> <<"a", "b", "c">>] }

Questions == { <<"How many hours were logged?">>, <<"q", "\n", "2">> }

Models == { DEFAULT_MODEL }

\* what the endpoint does with the one request: the connection is refused,
\* the read times out, the server answers 500, the body is not JSON (the
\* exception response.json() raises then depends on the installed requests
\* and json libraries), the body is a JSON object with or without the
\* "response" field, the body is a JSON array
Replies ==
  { "refused", "read_timeout", "http_500",
    "not_json/requests>=2.27", "not_json/json", "not_json/simplejson",
    "object_with_response", "object_without_response", "array" }

ResponseText == <<"42 hours">>

(* ---------------------------- store ------------------------------------ *)

Absent == [exists |-> FALSE, content |-> <<>>]

File(text) == [exists |-> TRUE, content |-> text]

\* datetime.datetime.now().isoformat() at the clk-th call of add_task
Timestamp(clk) == <<"T">> \o IntStr(clk)

\* an ensure_csv_exists that creates the file and writes no header
EnsureCsvExistsNoHeader(f) ==
  IF ~f.exists THEN File(<<>>) ELSE f

EnsureCsvExists(f) ==
  IF ~f.exists THEN File(CsvWriteRow(CSV_HEADERS)) ELSE f

\* an add_task that opens the file with 'w' instead of 'a'
AddTaskStoreTruncate(f, task, date, hours, clk) ==
  File(CsvWriteRow(CSV_HEADERS)
       \o CsvWriteRow(<<Timestamp(clk), date, task, FloatRepr(hours)>>))

\* add_task: the store after the call
AddTaskStore(f, task, date, hours, clk) ==
  LET f1 == EnsureCsvExists(f)
  IN  File(f1.content \o CsvWriteRow(<<Timestamp(clk), date, task, FloatRepr(hours)>>))

\* add_task: the line it prints
AddTaskOut(task, date, hours) ==
  << <<"Task added: '">> \o task \o <<"' on ">> \o date \o <<" (">>
     \o FloatRepr(hours) \o <<" hours)">> >>

(* ---------------------------- read_tasks ------------------------------- *)

\* values of a row dictionary: a string, None (a missing field), or the
\* float that read_tasks puts under 'hours'
StrVal(s) == [t |-> "str", s |-> s, f |-> FloatError]
NoneVal == [t |-> "None", s |-> <<>>, f |-> FloatError]
FloatVal(x) == [t |-> "float", s |-> <<>>, f |-> x]

Keys(fieldnames) == {fieldnames[i] : i \in 1..Len(fieldnames)}

\* dict(zip(fieldnames, row)) with restval None: a later duplicate of a
\* field name wins (the restkey entry is never read and is left out)
DictRow(fieldnames, row) ==
  [key \in Keys(fieldnames) |->
     LET zipped == {i \in 1..Len(fieldnames) : fieldnames[i] = key /\ i <= Len(row)}
     IN  IF zipped = {} THEN NoneVal
         ELSE StrVal(row[CHOOSE i \in zipped : \A j \in zipped : j <= i])]

HOURS == <<"hours">>

\* the exception raised by row['hours'] = float(row['hours']), or "none"
RowFault(d) ==
  IF HOURS \notin DOMAIN d THEN "KeyError"
  ELSE IF d[HOURS].t = "None" THEN "TypeError"
  ELSE IF ParseFloat(d[HOURS].s).k = "ValueError" THEN "ValueError"
  ELSE "none"

ConvertRow(d) == [d EXCEPT ![HOURS] = FloatVal(ParseFloat(d[HOURS].s))]

\* read_tasks on an existing file: the list returned, or the exception of
\* the first row that cannot be converted
ReadTasksFile(text) ==
  LET rows == NonEmptyRows(CsvRows(text))
      dicts == IF rows = <<>> THEN <<>>
               ELSE [i \in 1..(Len(rows) - 1) |-> DictRow(rows[1], rows[i + 1])]
      bad == {i \in 1..Len(dicts) : RowFault(dicts[i]) # "none"}
  IN  IF bad = {}
      THEN [fault |-> "none", tasks |-> [i \in 1..Len(dicts) |-> ConvertRow(dicts[i])]]
      ELSE [fault |-> RowFault(dicts[CHOOSE i \in bad : \A j \in bad : i <= j]),
            tasks |-> <<>>]

ReadTasks(f) == ReadTasksFile(EnsureCsvExists(f).content)

(* ---------------------------- prompt ----------------------------------- *)

\* A prompt is the sequence of the pieces of the f-strings that build it
\* (literal pieces and interpolated values); its text is their concatenation.

DATE == <<"date">>
TASK == <<"task">>

\* str(v) of a dictionary value inside an f-string
FormatValue(v) ==
  IF v.t = "str" THEN v.s
  ELSE IF v.t = "float" THEN FloatRepr(v.f)
  ELSE <<"None">>

\* a loop that numbers the tasks from 0 (enumerate(tasks) without the 1)
TaskLineZeroBased(i, task) ==
  << IntStr(i - 1), <<". Date: ">>, FormatValue(task[DATE]),
     <<", Hours: ">>, FormatValue(task[HOURS]),
     <<", Task: ">>, FormatValue(task[TASK]), <<"\n">> >>

\* f"{i}. Date: {task['date']}, Hours: {task['hours']}, Task: {task['task']}\n"
TaskLine(i, task) ==
  << IntStr(i), <<". Date: ">>, FormatValue(task[DATE]),
     <<", Hours: ">>, FormatValue(task[HOURS]),
     <<", Task: ">>, FormatValue(task[TASK]), <<"\n">> >>

\* the loop over enumerate(tasks, 1), from its i-th iteration on
RECURSIVE TasksDataFrom(_, _, _)
TasksDataFrom(tasks, i, acc) ==
  IF i > Len(tasks) THEN acc
  ELSE TasksDataFrom(tasks, i + 1, acc \o TaskLine(i, tasks[i]))

TasksData(tasks) == TasksDataFrom(tasks, 1, << <<"Task data:\n">> >>)

PROMPT_HEAD ==
  <<"\nYou are a helpful assistant analyzing task log data. Please answer the following question based on the task data provided.\n\n">>
PROMPT_QUESTION == <<"\n\nQuestion: ">>
PROMPT_TAIL ==
  <<"\n\nPlease provide a clear and concise answer based only on the task data provided.\n">>

BuildPrompt(question, tasks) ==
  <<PROMPT_HEAD>> \o TasksData(tasks) \o <<PROMPT_QUESTION, question, PROMPT_TAIL>>

\* the KeyError of task['date'] / task['task'] when the header row of the
\* store has no such column
PromptFault(tasks) ==
  IF \E i \in 1..Len(tasks) : DATE \notin DOMAIN tasks[i] \/ TASK \notin DOMAIN tasks[i]
  THEN "KeyError" ELSE "none"

Payload(question, tasks, model) ==
  [model |-> model, prompt |-> BuildPrompt(question, tasks), stream |-> FALSE]

(* ---------------------------- inference client ------------------------- *)

MSG_NOT_RUNNING ==
  <<"Error: Could not connect to Ollama. Make sure Ollama is running (ollama serve).">>
MSG_COMMUNICATION == <<"Error communicating with Ollama: ">>
MSG_INVALID == <<"Error: Received invalid response from Ollama.">>
MSG_NO_RESPONSE == <<"No response received from Ollama.">>

\* the exception raised inside the try block for a reply, "none" if none
Raised(rep) ==
  CASE rep = "refused" -> "requests.ConnectionError"
    [] rep = "read_timeout" -> "requests.ReadTimeout"
    [] rep = "http_500" -> "requests.HTTPError"
    [] rep = "not_json/requests>=2.27" -> "requests.JSONDecodeError"
    [] rep = "not_json/json" -> "json.JSONDecodeError"
    [] rep = "not_json/simplejson" -> "simplejson.JSONDecodeError"
    [] rep = "array" -> "AttributeError"
    [] OTHER -> "none"

\* the classes an exception is an instance of
Classes(exc) ==
  CASE exc = "requests.ConnectionError" -> {exc, "requests.RequestException"}
    [] exc = "requests.ReadTimeout" -> {exc, "requests.Timeout", "requests.RequestException"}
    [] exc = "requests.HTTPError" -> {exc, "requests.RequestException"}
    [] exc = "requests.JSONDecodeError" ->
         {exc, "requests.InvalidJSONError", "requests.RequestException",
          "json.JSONDecodeError", "ValueError"}
    [] exc = "json.JSONDecodeError" -> {exc, "ValueError"}
    [] exc = "simplejson.JSONDecodeError" -> {exc, "ValueError"}
    [] OTHER -> {exc}

\* str(e)
Cause(exc) == <<"<", exc, ">">>

\* query_tasks_with_ollama from the request on: the value returned, or the
\* exception that no except clause catches
Ask(rep) ==
  LET exc == Raised(rep)
      cls == Classes(exc)
  IN  IF exc = "none" THEN
        [fault |-> "none",
         answer |-> IF rep = "object_with_response" THEN ResponseText
                    ELSE MSG_NO_RESPONSE]
      ELSE IF "requests.ConnectionError" \in cls THEN
        [fault |-> "none", answer |-> MSG_NOT_RUNNING]
      ELSE IF "requests.RequestException" \in cls THEN
        [fault |-> "none", answer |-> MSG_COMMUNICATION \o Cause(exc)]
      ELSE IF "json.JSONDecodeError" \in cls THEN
        [fault |-> "none", answer |-> MSG_INVALID]
      ELSE [fault |-> exc, answer |-> <<>>]

(* ---------------------------- state ------------------------------------ *)

VARIABLES
  store,     \* the file tasklog.csv: [exists, content]
  clock,     \* number of add_task calls so far (drives datetime.now())
  argv,      \* the command line of the last invocation
  exit,      \* its exit status
  out,       \* the lines it printed
  read,      \* read_tasks in it: "not_called", "returned" or "raised"
  tasks,     \* the list read_tasks returned in it
  requests,  \* the payloads it posted to the endpoint
  answer,    \* what query_tasks_with_ollama returned in it
  fault,     \* the exception that ended it, "none" if none
  reply,     \* what the endpoint did with its request, "none" if none was sent
  pre        \* the file as it was when the last invocation began

vars == <<store, clock, argv, exit, out, read, tasks, requests, answer, fault, reply, pre>>

NoHours == [given |-> FALSE, text |-> <<>>]

Argv(command, task, date, hours, question, model) ==
  [command |-> command, task |-> task, date |-> date, hours |-> hours,
   question |-> question, model |-> model]

\* argparse, type=float with default=0.0: args.hours
ArgHours(opt) == IF opt.given THEN ParseFloat(opt.text) ELSE Fin(FALSE, 0, 0)

MSG_USAGE == <<"usage: tasklog.py [-h] {add,query} ...">>
MSG_BAD_DATE == <<"Error: Invalid date format. Please use YYYY-MM-DD format.">>
MSG_BAD_HOURS == <<"Error: Hours must be a non-negative number.">>
MSG_NO_TASKS == <<"No tasks found in the log.">>

\* a validate_args that forgets the check of the hours
ValidateArgsDateOnly(command, date, hours) ==
  IF command = "add" /\ ~IsIsoDate(date) THEN <<MSG_BAD_DATE>> ELSE <<>>

\* validate_args: the error it prints, <<>> when it returns True
ValidateArgs(command, date, hours) ==
  IF command = "add" THEN
    IF ~IsIsoDate(date) THEN <<MSG_BAD_DATE>>
    ELSE IF FloatLtZero(hours) THEN <<MSG_BAD_HOURS>>
    ELSE <<>>
  ELSE <<>>

\* an invocation that ends before add_task / query_tasks is called
Stop(status, lines) ==
  /\ exit' = status
  /\ out' = lines
  /\ read' = "not_called"
  /\ tasks' = <<>>
  /\ requests' = <<>>
  /\ answer' = <<>>
  /\ fault' = "none"
  /\ reply' = "none"
  /\ UNCHANGED <<store, clock>>

Init ==
  /\ store = Absent
  /\ clock = 0
  /\ argv = Argv("start", <<>>, <<>>, NoHours, <<>>, <<>>)
  /\ exit = 0
  /\ out = <<>>
  /\ read = "not_called"
  /\ tasks = <<>>
  /\ requests = <<>>
  /\ answer = <<>>
  /\ fault = "none"
  /\ reply = "none"
  /\ pre = Absent

(* ---------------------------- invocations ------------------------------ *)

\* tasklog.py add <task> [--date=<date>] [--hours=<hours>]
Add(task, date, opt) ==
  /\ clock < MaxRecords
  /\ argv' = Argv("add", task, date, opt, <<>>, <<>>)
  /\ pre' = store
  /\ LET hours == ArgHours(opt)
         errors == ValidateArgs("add", date, hours)
     IN  IF hours.k = "ValueError" THEN Stop(2, <<MSG_USAGE>>)
         ELSE IF errors # <<>> THEN Stop(1, errors)
         ELSE /\ store' = AddTaskStore(store, task, date, hours, clock + 1)
              /\ clock' = clock + 1
              /\ exit' = 0
              /\ out' = AddTaskOut(task, date, hours)
              /\ read' = "not_called"
              /\ tasks' = <<>>
              /\ requests' = <<>>
              /\ answer' = <<>>
              /\ fault' = "none"
              /\ reply' = "none"

\* query_tasks: the lines printed before the request
QueryHead(question, model) ==
  << <<"Querying tasks using Ollama model '">> \o model \o <<"'...">>,
     <<"Question: ">> \o question \o <<"\n">> >>

\* a client that posts the request a second time when the endpoint fails
QueryOllamaRetry(question, model, ts, rep) ==
  LET a == Ask(rep)
      p == Payload(question, ts, model)
  IN  /\ read' = "returned"
      /\ tasks' = ts
      /\ requests' = IF Raised(rep) = "none" THEN <<p>> ELSE <<p, p>>
      /\ reply' = rep
      /\ IF a.fault # "none" THEN
           /\ answer' = <<>> /\ out' = QueryHead(question, model)
           /\ fault' = a.fault /\ exit' = 1
         ELSE
           /\ answer' = a.answer
           /\ out' = QueryHead(question, model) \o << <<"\nOllama Response:">>, a.answer >>
           /\ fault' = "none" /\ exit' = 0

\* query_tasks after read_tasks returned the non-empty list ts: the prompt
\* is built and posted, and the endpoint answers the request with rep
QueryOllama(question, model, ts, rep) ==
  LET a == Ask(rep)
  IN  /\ read' = "returned"
      /\ tasks' = ts
      /\ requests' = <<Payload(question, ts, model)>>
      /\ reply' = rep
      /\ IF a.fault # "none" THEN
           /\ answer' = <<>> /\ out' = QueryHead(question, model)
           /\ fault' = a.fault /\ exit' = 1
         ELSE
           /\ answer' = a.answer
           /\ out' = QueryHead(question, model) \o << <<"\nOllama Response:">>, a.answer >>
           /\ fault' = "none" /\ exit' = 0

\* tasklog.py query <question> [--model=<model>]; r is what read_tasks does
\* on the store of the current state
Query(question, model, r) ==
  /\ argv' = Argv("query", <<>>, <<>>, NoHours, question, model)
  /\ pre' = store
  /\ store' = EnsureCsvExists(store)
  /\ clock' = clock
  /\ IF r.fault # "none" THEN
       /\ read' = "raised" /\ tasks' = <<>> /\ requests' = <<>>
       /\ answer' = <<>> /\ out' = <<>>
       /\ fault' = r.fault /\ exit' = 1 /\ reply' = "none"
     ELSE IF r.tasks = <<>> THEN
       /\ read' = "returned" /\ tasks' = <<>> /\ requests' = <<>>
       /\ answer' = <<>> /\ out' = <<MSG_NO_TASKS>>
       /\ fault' = "none" /\ exit' = 0 /\ reply' = "none"
     ELSE IF PromptFault(r.tasks) # "none" THEN
       /\ read' = "returned" /\ tasks' = r.tasks /\ requests' = <<>>
       /\ answer' = <<>> /\ out' = QueryHead(question, model)
       /\ fault' = PromptFault(r.tasks) /\ exit' = 1 /\ reply' = "none"
     ELSE \E rep \in Replies : QueryOllama(question, model, r.tasks, rep)

\* tasklog.py with no command
NoCommand ==
  /\ argv' = Argv("none", <<>>, <<>>, NoHours, <<>>, <<>>)
  /\ pre' = store
  /\ Stop(1, <<MSG_USAGE>>)

AddStep == \E task \in Tasks, date \in Dates, opt \in HoursOpts : Add(task, date, opt)

QueryStep ==
  LET r == ReadTasks(store)
  IN  \E question \in Questions, model \in Models : Query(question, model, r)

Next ==
  \/ AddStep
  \/ QueryStep
  \/ NoCommand

\* the program run from a directory without a store file
Spec == Init /\ [][Next]_vars

\* store files the program can find in its directory: none, an empty file,
\* the header alone, the header and a well-formed row, a row whose hours
\* are not a number, a row without the hours field, a row without a header
GoodRow == CsvWriteRow(<< <<"T", "0">>, <<"2", "0", "2", "4", "-", "0", "2", "-", "2", "9">>,
                          <<"a">>, <<"1", ".", "0">> >>)

PriorStores ==
  { Absent,
    File(<<>>),
    File(CsvWriteRow(CSV_HEADERS)),
    File(CsvWriteRow(CSV_HEADERS) \o GoodRow),
    File(CsvWriteRow(CSV_HEADERS) \o CsvWriteRow(<< <<"T", "0">>, <<"d">>, <<"a">>, <<"l", "o", "t", "s">> >>)),
    File(CsvWriteRow(CSV_HEADERS) \o CsvWriteRow(<< <<"T", "0">>, <<"d">>, <<"a">> >>)),
    File(GoodRow) }

InitAnyStore ==
  /\ store \in PriorStores
  /\ clock = 0
  /\ argv = Argv("start", <<>>, <<>>, NoHours, <<>>, <<>>)
  /\ exit = 0
  /\ out = <<>>
  /\ read = "not_called"
  /\ tasks = <<>>
  /\ requests = <<>>
  /\ answer = <<>>
  /\ fault = "none"
  /\ reply = "none"
  /\ pre = store

\* the program run from a directory that may already hold a store file
SpecAnyStore == InitAnyStore /\ [][Next]_vars

(* ---------------------------- properties ------------------------------- *)

\* the record sequence of a store file: its non-empty rows after the header
StoreRecords(f) ==
  LET rows == NonEmptyRows(CsvRows(f.content))
  IN  IF rows = <<>> THEN <<>> ELSE Tail(rows)

IsPrefix(a, b) == Len(a) <= Len(b) /\ SubSeq(b, 1, Len(a)) = a

TIMESTAMP == <<"timestamp">>

AddDone == argv.command = "add" /\ exit = 0

\* C1: after an add of a valid (description, date, hours >= 0) triple, in
\* whatever store earlier invocations left, read_tasks returns a list whose
\* last element has the date, the description and the hours of the command
\* line and a non-empty timestamp that no earlier record has.
C1_AddThenReadAll ==
  (AddDone /\ FloatGeZero(ArgHours(argv.hours))) =>
    LET r == ReadTasks(store)
        n == Len(r.tasks)
    IN  /\ r.fault = "none"
        /\ n = Len(StoreRecords(pre)) + 1
        /\ r.tasks[n][DATE] = StrVal(argv.date)
        /\ r.tasks[n][TASK] = StrVal(argv.task)
        /\ r.tasks[n][HOURS].t = "float"
        /\ FloatEq(r.tasks[n][HOURS].f, ArgHours(argv.hours))
        /\ r.tasks[n][TIMESTAMP].t = "str"
        /\ r.tasks[n][TIMESTAMP].s # <<>>
        /\ \A i \in 1..(n - 1) : r.tasks[i][TIMESTAMP] # r.tasks[n][TIMESTAMP]

C1_Witness ==
  /\ AddDone
  /\ argv.task = <<"b", ",", "\"", "c">>
  /\ argv.hours.text = <<"3", ".", "5", "0">>
  /\ Len(StoreRecords(pre)) = 1

\* C2: an add with hours < 0 or a malformed date leaves the store file as
\* it was (absent if it was absent), calls neither add_task nor read_tasks,
\* and exits non-zero.
C2_RejectedAddWritesNothing ==
  (argv.command = "add" /\ (FloatLtZero(ArgHours(argv.hours)) \/ ~IsIsoDate(argv.date))) =>
    /\ store = pre
    /\ exit # 0
    /\ out # <<>>

C2_Witness ==
  /\ argv.command = "add"
  /\ FloatLtZero(ArgHours(argv.hours))
  /\ IsIsoDate(argv.date)
  /\ ~pre.exists
  /\ ~store.exists
  /\ exit = 1

\* C6: read_tasks on a store that does not exist returns the empty list and
\* leaves a file whose only row is the four-field header.
C6_ReadAllCreatesHeaderOnly ==
  (argv.command = "query" /\ ~pre.exists) =>
    /\ read = "returned"
    /\ tasks = <<>>
    /\ store.exists
    /\ CsvRows(store.content) = <<CSV_HEADERS>>

C6_Witness ==
  /\ argv.command = "query"
  /\ ~pre.exists
  /\ store.exists

\* C7: the record sequence before an invocation is a prefix of the one
\* after it; a successful add extends it by exactly one record, every
\* other invocation leaves it unchanged.
C7_AppendOnly ==
  LET before == StoreRecords(pre)
      after == StoreRecords(store)
  IN  /\ IsPrefix(before, after)
      /\ AddDone => Len(after) = Len(before) + 1
      /\ ~AddDone => after = before

C7_Witness ==
  /\ AddDone
  /\ argv.task = <<"x", "\n", "y">>
  /\ Len(StoreRecords(pre)) = 1
  /\ Len(StoreRecords(store)) = 2

\* C3: a query posts no request when read_tasks returns the empty list (it
\* prints the "no tasks" line instead) and exactly one request when it
\* returns a non-empty list, whatever the endpoint does with that request.
C3_RequestCount ==
  (argv.command = "query") =>
    /\ read = "returned"
    /\ tasks = ReadTasks(pre).tasks
    /\ tasks = <<>> => (requests = <<>> /\ out = <<MSG_NO_TASKS>>)
    /\ tasks # <<>> => (Len(requests) = 1 /\ reply \in Replies)

C3_Witness ==
  /\ argv.command = "query"
  /\ tasks # <<>>
  /\ reply = "refused"
  /\ Len(requests) = 1

\* C4: query_tasks_with_ollama raises nothing on an endpoint failure and
\* returns the message of the class of the failure: "not running" for a
\* refused connection, "communication error" with the cause for another
\* transport failure, "invalid response" for a body that is not JSON.
C4_FailureMessages ==
  LET notJson == {"not_json/requests>=2.27", "not_json/json", "not_json/simplejson"}
  IN  (reply \in {"refused", "read_timeout", "http_500"} \cup notJson) =>
        /\ fault = "none"
        /\ reply = "refused" => answer = MSG_NOT_RUNNING
        /\ reply \in {"read_timeout", "http_500"} =>
             answer = MSG_COMMUNICATION \o Cause(Raised(reply))
        /\ reply \in notJson => answer = MSG_INVALID

\* C5: a query whose arguments parse exits with status 0 and without an
\* uncaught exception, whatever the store holds and the endpoint does.
C5_QueryExitsZero ==
  (argv.command = "query") => (exit = 0 /\ fault = "none")

\* C8: the prompt posted by a query lists every record of the store once,
\* in store order, record N as the N-th entry with its number N, its date,
\* its hours and its description; the question comes after the entries and
\* nothing else of the state enters the prompt.
C8_PromptEnumeratesRecords ==
  (Len(requests) = 1) =>
    LET p == requests[1].prompt
        recs == StoreRecords(store)
        n == Len(recs)
    IN  /\ Len(p) = 5 + 8 * n
        /\ p[1] = PROMPT_HEAD
        /\ \A N \in 1..n :
             LET at == 2 + 8 * (N - 1)
             IN  /\ p[at + 1] = IntStr(N)
                 /\ p[at + 3] = recs[N][2]
                 /\ p[at + 5] = recs[N][4]
                 /\ p[at + 7] = recs[N][3]
                 /\ p[at + 8] = <<"\n">>
        /\ p[3 + 8 * n] = PROMPT_QUESTION
        /\ p[4 + 8 * n] = argv.question
        /\ p[5 + 8 * n] = PROMPT_TAIL

C8_Witness ==
  /\ Len(requests) = 1
  /\ Len(tasks) = 2
  /\ tasks[1][TASK] = StrVal(<<"x", "\n", "y">>)
  /\ tasks[2][TASK] = StrVal(<<"b", ",", "\"", "c">>)
  /\ argv.question = <<"q", "\n", "2">>

\* C9: after add_task the first row of the store is the four-field header
\* and its last row is the record just appended, whatever the file was
\* before: absent, with the header, or without it.
C9_HeaderFirstAfterAppend ==
  AddDone =>
    LET rows == NonEmptyRows(CsvRows(store.content))
    IN  /\ Len(rows) >= 2
        /\ rows[1] = CSV_HEADERS
        /\ rows[Len(rows)] =
             <<Timestamp(clock), argv.date, argv.task, FloatRepr(ArgHours(argv.hours))>>

\* C10: from an absent store, after any adds and queries, every record of
\* the store has hours >= 0 and a well-formed calendar date, and read_tasks
\* raises nothing.
C10_RecordsWellFormed ==
  LET r == ReadTasks(store)
  IN  /\ r.fault = "none"
      /\ \A i \in 1..Len(r.tasks) :
           /\ FloatGeZero(r.tasks[i][HOURS].f)
           /\ r.tasks[i][DATE].t = "str"
           /\ IsIsoDate(r.tasks[i][DATE].s)

====
